---- MODULE Spec2Model ----
(***************************************************************************)
(* A model of wb_paid_storage_sync.py: the window planner, the three       *)
(* client functions of the report protocol (create, status, download),     *)
(* the row normalizer, the sink writer and the orchestrator's modes.       *)
(*                                                                         *)
(* Dates are proleptic Gregorian ordinals (date.toordinal()).  JSON values *)
(* are tagged records [t |-> type, v |-> value]; strings are tuples of     *)
(* one-character strings, so that slicing is computed and not assumed.     *)
(***************************************************************************)
EXTENDS Integers, Sequences, FiniteSets, TLC

\* ------------------------------------------------------------------------
\* Program constants
\* ------------------------------------------------------------------------
MAX_DAYS == 8
STATUS_POLL_STEP_MIN == 5
STATUS_POLL_STEP_MAX == 20
DOWNLOAD_RETRIES == 6
\* the default of WB_STATUS_MAX_WAIT
STATUS_MAX_WAIT_DEFAULT == 900
\* range(1, 7) of http_get: the last attempt number
HTTP_ATTEMPTS == 6
\* http_get's first delay, its growth factor and its cap
HTTP_DELAY0 == 2
HTTP_DELAY_FACTOR == 2
HTTP_DELAY_CAP == 30
\* download_report's first cooldown, its increment and its cap
DL_DELAY0 == 65
DL_DELAY_INC == 15
DL_DELAY_CAP == 120
\* poll_status's increment of the step
POLL_STEP_INC == 2
\* range(3) of the modes' retry loops, and their sleep after a failure
WINDOW_ATTEMPTS == 3
RETRY_SLEEP == 10
\* fetch_window's pause after a window
WINDOW_PAUSE == 2
\* str(v)[:10] of norm_date
DATE_LEN == 10
\* sync's default days_back
SYNC_DAYS_DEFAULT == 8
\* the exit status of the usage and unknown-mode exits, which is also
\* Python's exit status after an uncaught exception
EXIT_ERROR == 1
\* the exit status of the missing-environment handler
EXIT_MISSING_ENV == 2

\* ------------------------------------------------------------------------
\* Bounds of the model
\* ------------------------------------------------------------------------
\* BATCH_SIZE is 1000 in the source; the model writes chunks of this many
\* records, so that a batch of a few records spans several chunks.
BATCH_SIZE == 2
\* WB_STATUS_MAX_WAIT as set in the environment of the modelled runs
\* (polls at waited = 0, 5, 12, 21).
MaxWaitSet == 22
\* date.today() of the modelled runs: 2024-03-08
Today == 738953
\* the planner is applied to every pair of dates in Today .. Today + ChunkSpan
ChunkSpan == 20
\* batches handed to upsert hold at most this many records
MaxBatch == 4

Min(a, b) == IF a <= b THEN a ELSE b

\* ------------------------------------------------------------------------
\* Window planner
\* ------------------------------------------------------------------------
RECURSIVE chunks_from_mut(_, _)
chunks_from_mut(cur, d2) ==
    IF cur <= d2
    THEN LET end == Min(cur + MAX_DAYS, d2)
         IN  <<<<cur, end>>>> \o chunks_from_mut(end + 1, d2)
    ELSE <<>>

chunks_8days_wide(d1, d2) == chunks_from_mut(d1, d2)

\* the generator's loop, from its current date cur
RECURSIVE chunks_from(_, _)
chunks_from(cur, d2) ==
    IF cur <= d2
    THEN LET end == Min(cur + (MAX_DAYS - 1), d2)
         IN  <<<<cur, end>>>> \o chunks_from(end + 1, d2)
    ELSE <<>>

\* the windows chunks_8days(d1, d2) yields, in the order it yields them
chunks_8days(d1, d2) == chunks_from(d1, d2)

\* ------------------------------------------------------------------------
\* JSON values, as Python sees them after r.json()
\* ------------------------------------------------------------------------
JNull == [t |-> "null", v |-> 0]
JStr(s) == [t |-> "str", v |-> s]
JInt(n) == [t |-> "int", v |-> n]
JList(xs) == [t |-> "list", v |-> xs]
JDict(f) == [t |-> "dict", v |-> f]

\* Python's truth value of a JSON value
Truthy(x) ==
    CASE x.t = "null" -> FALSE
      [] x.t = "str"  -> Len(x.v) > 0
      [] x.t = "int"  -> x.v # 0
      [] x.t = "list" -> Len(x.v) > 0
      [] x.t = "dict" -> DOMAIN x.v # {}

\* dict.get(k, default) and dict.get(k)
GetOr(d, k, default) == IF k \in DOMAIN d.v THEN d.v[k] ELSE default
Get(d, k) == GetOr(d, k, JNull)

Digit(n) == <<"0", "1", "2", "3", "4", "5", "6", "7", "8", "9">>[n + 1]

RECURSIVE NatStr(_)
NatStr(n) == IF n < 10 THEN <<Digit(n)>> ELSE NatStr(n \div 10) \o <<Digit(n % 10)>>

\* str(v) of a string or an integer, as a tuple of characters
PyStr(x) ==
    CASE x.t = "str" -> x.v
      [] x.t = "int" -> IF x.v < 0 THEN <<"-">> \o NatStr(-x.v) ELSE NatStr(x.v)

Take(s, n) == SubSeq(s, 1, Min(n, Len(s)))

\* ------------------------------------------------------------------------
\* Row normalizer
\* ------------------------------------------------------------------------
norm_date_whole(x) == IF ~Truthy(x) THEN JNull ELSE JStr(PyStr(x))

norm_date(x) == IF ~Truthy(x) THEN JNull ELSE JStr(Take(PyStr(x), DATE_LEN))

\* canonical field name |-> the raw row's field name
ExternalName ==
    [date |-> "date", log_warehouse_coef |-> "logWarehouseCoef",
     office_id |-> "officeId", warehouse |-> "warehouse",
     warehouse_coef |-> "warehouseCoef", gi_id |-> "giId",
     chrt_id |-> "chrtId", size |-> "size", barcode |-> "barcode",
     subject |-> "subject", brand |-> "brand", vendor_code |-> "vendorCode",
     nm_id |-> "nmId", volume |-> "volume", calc_type |-> "calcType",
     warehouse_price |-> "warehousePrice", barcodes_count |-> "barcodesCount",
     pallet_place_code |-> "palletPlaceCode", pallet_count |-> "palletCount",
     original_date |-> "originalDate", loyalty_discount |-> "loyaltyDiscount",
     tariff_fix_date |-> "tariffFixDate", tariff_lower_date |-> "tariffLowerDate"]

\* the fields normalize_row passes through norm_date
DateFields == {"date", "original_date", "tariff_fix_date"}

\* sha256 of the sorted-keys serialization, taken as collision-free: the
\* digest stands for the content it was computed from
Sha256(out) == [t |-> "sha256", v |-> out]

normalize_row(row) ==
    LET out == [f \in DOMAIN ExternalName |->
                  IF f \in DateFields
                  THEN norm_date(Get(row, ExternalName[f]))
                  ELSE Get(row, ExternalName[f])]
    IN  [f \in DOMAIN ExternalName \cup {"_hash"} |->
           IF f = "_hash" THEN Sha256(out) ELSE out[f]]

\* [normalize_row(r) for r in data]
normalize_all(data) == [i \in 1..Len(data) |-> normalize_row(data[i])]

\* ------------------------------------------------------------------------
\* Sink writer: the local de-duplication and the chunks
\* ------------------------------------------------------------------------
\* the key upsert builds for a record
KeyOf(r) == <<r["date"], r["nm_id"], r["chrt_id"], r["office_id"]>>

dedup_put_first(acc, r) ==
    IF \E j \in 1..Len(acc) : KeyOf(acc[j]) = KeyOf(r)
    THEN acc
    ELSE Append(acc, r)

\* dedup[key] = r on a dict kept in insertion order: a known key keeps its
\* place and takes the new record, a new key goes to the end
dedup_put(acc, r) ==
    IF \E j \in 1..Len(acc) : KeyOf(acc[j]) = KeyOf(r)
    THEN [j \in 1..Len(acc) |-> IF KeyOf(acc[j]) = KeyOf(r) THEN r ELSE acc[j]]
    ELSE Append(acc, r)

RECURSIVE dedup_from(_, _, _)
dedup_from(rows, i, acc) ==
    IF i > Len(rows) THEN acc
    ELSE dedup_from(rows, i + 1, dedup_put(acc, rows[i]))

\* clean_rows = list(dedup.values())
clean_rows_of(rows) == dedup_from(rows, 1, <<>>)

chunk_at_wide(rows, i) == SubSeq(rows, i + 1, Min(i + BATCH_SIZE + 1, Len(rows)))

\* clean_rows[i:i+BATCH_SIZE], for a 0-based i
chunk_at(rows, i) == SubSeq(rows, i + 1, Min(i + BATCH_SIZE, Len(rows)))

\* the table after upsert(chunk, on_conflict = the natural key): a record
\* replaces the stored record of its key
sink_upsert(table, chunk) ==
    LET keys == {KeyOf(chunk[j]) : j \in 1..Len(chunk)}
    IN  [k \in DOMAIN table \cup keys |->
           IF k \in keys
           THEN chunk[CHOOSE j \in 1..Len(chunk) :
                        /\ KeyOf(chunk[j]) = k
                        /\ \A j2 \in j + 1..Len(chunk) : KeyOf(chunk[j2]) # k]
           ELSE table[k]]

\* ------------------------------------------------------------------------
\* Payload shapes
\* ------------------------------------------------------------------------
S_taskId == "taskId"
WrapperKeys == <<"rows", "items", "elements", "list", "result">>

probe_from_last(v, i) ==
    IF \E k \in i..Len(WrapperKeys) : Get(v, WrapperKeys[k]).t = "list"
    THEN CHOOSE k \in i..Len(WrapperKeys) :
           /\ Get(v, WrapperKeys[k]).t = "list"
           /\ \A k2 \in (k + 1)..Len(WrapperKeys) : Get(v, WrapperKeys[k2]).t # "list"
    ELSE 0

\* the first wrapper key, in probe order from i, under which v holds a list
RECURSIVE probe_from(_, _)
probe_from(v, i) ==
    IF i > Len(WrapperKeys) THEN 0
    ELSE IF Get(v, WrapperKeys[i]).t = "list" THEN i
    ELSE probe_from(v, i + 1)

extract_rows(payload) ==
    IF payload.t = "list" THEN payload.v
    ELSE IF payload.t = "dict"
    THEN LET v == GetOr(payload, "data", payload)
         IN  IF v.t = "list" THEN v.v
             ELSE IF v.t = "dict"
             THEN LET i == probe_from(v, 1)
                  IN  IF i > 0 THEN v.v[WrapperKeys[i]].v ELSE <<>>
             ELSE <<>>
    ELSE <<>>

\* fetch_window's task_id for a create payload (None when there is none)
task_id_of(payload) ==
    IF payload.t = "dict"
    THEN LET v == GetOr(payload, "data", payload)
         IN  IF v.t = "dict" THEN Get(v, S_taskId) ELSE JNull
    ELSE JNull

\* the status words of the protocol, as strings
W_done == <<"d", "o", "n", "e">>
W_error == <<"e", "r", "r", "o", "r">>
W_failed == <<"f", "a", "i", "l", "e", "d">>
W_new == <<"n", "e", "w">>
W_processing == <<"p", "r", "o", "c", "e", "s", "s", "i", "n", "g">>
\* poll_status's own word for giving up
W_timeout == <<"t", "i", "m", "e", "o", "u", "t">>

\* whether js.get("data", {}).get("status") or js.get("status") evaluates
\* without an AttributeError
status_parses(js) ==
    /\ js.t = "dict"
    /\ GetOr(js, "data", JDict(<<>>)).t = "dict"

\* its value, for a js on which it evaluates
status_of(js) ==
    LET inner == Get(GetOr(js, "data", JDict(<<>>)), "status")
    IN  IF Truthy(inner) THEN inner ELSE Get(js, "status")

\* status in ("done", "error", "failed")
is_terminal(status) ==
    status \in {JStr(W_done), JStr(W_error), JStr(W_failed)}

\* ------------------------------------------------------------------------
\* Response classes of the client functions
\* ------------------------------------------------------------------------
\* r.raise_for_status() raises on these
raises_for_status(code) == 400 <= code /\ code < 600

is_retryable_429_only(code) == code = 429

\* http_get and poll_status sleep and go round again on these
is_retryable(code) == code = 429 \/ (500 <= code /\ code < 600)

\* What http_get and poll_status do with a response, by their tests in
\* order: "auth" (the 401 test raises), "retry", "error" (raise_for_status
\* raises) or "ok".
http_class_401_retried(code) ==
    IF code = 401 \/ is_retryable(code) THEN "retry"
    ELSE IF raises_for_status(code) THEN "error"
    ELSE "ok"

http_class(code) ==
    IF code = 401 THEN "auth"
    ELSE IF is_retryable(code) THEN "retry"
    ELSE IF raises_for_status(code) THEN "error"
    ELSE "ok"

\* the same for download_report, which goes round again on 429 alone
download_class(code) ==
    IF code = 401 THEN "auth"
    ELSE IF code = 429 THEN "retry"
    ELSE IF raises_for_status(code) THEN "error"
    ELSE "ok"

json_parses_always(r) == TRUE

\* whether r.json() returns (it raises a ValueError otherwise)
json_parses(r) == r.json

\* delay = min(delay*2, 30)
next_delay_uncapped(delay) == delay * HTTP_DELAY_FACTOR

next_delay(delay) == Min(delay * HTTP_DELAY_FACTOR, HTTP_DELAY_CAP)

next_step_uncapped(step) == step + POLL_STEP_INC

\* step = min(step + 2, STATUS_POLL_STEP_MAX)
next_step(step) == Min(step + POLL_STEP_INC, STATUS_POLL_STEP_MAX)

next_download_delay_uncapped(delay) == delay + DL_DELAY_INC

\* delay = min(delay + 15, 120)
next_download_delay(delay) == Min(delay + DL_DELAY_INC, DL_DELAY_CAP)

\* ------------------------------------------------------------------------
\* State
\* ------------------------------------------------------------------------
VARIABLES
    pc,               \* where the process is
    environ,          \* os.environ: the required names present, WB_STATUS_MAX_WAIT
    argv,             \* sys.argv[1:], numbers and dates already parsed
    STATUS_MAX_WAIT,  \* the module-level setting, once read
    exitCode,         \* the process's exit status, -1 while it runs
    report,           \* what the process printed when it ended
    plan,             \* the windows of the mode's range, in generator order
    widx,             \* 1-based index in plan of the current window
    attempt,          \* the retry loop's variable
    delay, hattempt,  \* http_get's locals
    payload, task_id, status,   \* fetch_window's locals
    waited, step,     \* poll_status's locals
    ddelay, dattempt, \* download_report's locals
    data, rows,       \* fetch_window's data and the normalized rows
    clean_rows, chunk_i,        \* upsert's locals
    sink,             \* the table wb_paid_storage_x: natural key |-> record
    exc,              \* the exception in flight
    slept,            \* seconds slept by the last step, apart from its jitter
                      \* (0: none)
    jitter,           \* the draw the last step added to its sleep, by its
                      \* class ("none": no draw)
    lastReq,          \* the request the last step issued, if any
    lastResp,         \* and its response
    netUsed,          \* whether any request or sink write was ever issued
    created,          \* the task id the most recent create request returned
    polled,           \* of this attempt's poll_status call: n, the non-terminal
                      \* statuses it was given, and clean, whether no status
                      \* request was answered 429 or 5xx
    sent              \* the records handed to the sink by this upsert call

cfgV  == <<environ, argv>>
endV  == <<exitCode, report>>
orchV == <<plan, widx, attempt>>
httpV == <<delay, hattempt>>
fetchV == <<payload, task_id, created, status>>
pollV == <<waited, step, polled>>
dlV   == <<ddelay, dattempt>>
upV   == <<data, rows, clean_rows, chunk_i, sent>>
vars  == <<pc, environ, argv, STATUS_MAX_WAIT, exitCode, report, plan, widx,
           attempt, delay, hattempt, payload, task_id, status, waited, step,
           ddelay, dattempt, data, rows, clean_rows, chunk_i, sink, exc,
           slept, jitter, lastReq, lastResp, netUsed, created, polled, sent>>

\* ------------------------------------------------------------------------
\* Inputs of the modelled runs
\* ------------------------------------------------------------------------
RequiredEnv == <<"WB_API_TOKEN", "SUPABASE_URL", "SUPABASE_SERVICE_ROLE_KEY">>
RequiredSet == {RequiredEnv[i] : i \in 1..Len(RequiredEnv)}

WaitUnset == [set |-> FALSE, val |-> 0]
WaitSet(n) == [set |-> TRUE, val |-> n]

C_2024_03_01 == <<"2", "0", "2", "4", "-", "0", "3", "-", "0", "1">>
C_2024_03_02 == <<"2", "0", "2", "4", "-", "0", "3", "-", "0", "2">>
C_midnight == <<"T", "0", "0", ":", "0", "0", ":", "0", "0">>

\* raw rows: R1 and R2 are the same billing line (R2 dated by a timestamp of
\* the same day), R3 and R4 are other lines; R4 has no date and no office
R1 == JDict([date |-> JStr(C_2024_03_01), nmId |-> JInt(1), chrtId |-> JInt(1),
             officeId |-> JInt(1), volume |-> JInt(1)])
R2 == JDict([date |-> JStr(C_2024_03_01 \o C_midnight), nmId |-> JInt(1),
             chrtId |-> JInt(1), officeId |-> JInt(1), volume |-> JInt(2)])
R3 == JDict([date |-> JStr(C_2024_03_02), nmId |-> JInt(1), chrtId |-> JInt(1),
             officeId |-> JInt(1), volume |-> JInt(1)])
R4 == JDict([nmId |-> JInt(2), chrtId |-> JInt(1), volume |-> JInt(1)])

T1 == JStr(<<"t", "1">>)
T2 == JStr(<<"t", "2">>)

CreateBodies ==
    { JDict([data |-> JDict([taskId |-> T1])]),
      JDict([taskId |-> T2]),
      JList(<<R3>>),
      JDict(<<>>) }

StatusBodies ==
    { JDict([data |-> JDict([status |-> JStr(W_new)])]),
      JDict([status |-> JStr(W_processing)]),
      JDict([data |-> JDict([status |-> JStr(W_done)])]),
      JDict([status |-> JStr(W_error)]),
      JDict([data |-> JDict([status |-> JStr(W_failed)])]),
      JDict(<<>>),
      JList(<<>>) }

DownloadBodies ==
    { JList(<<R1, R2, R3>>),
      JList(<<>>),
      JDict([data |-> JList(<<R2, R1>>)]),
      JDict([data |-> JDict([rows |-> JList(<<R1, R3, R4>>)])]),
      JList(<<JInt(7)>>),
      JNull }

\* a response: requests.get raised, or returned a status code and a body
\* that parses as JSON or does not
RaisedResponse == [raised |-> TRUE, code |-> 0, json |-> FALSE, body |-> JNull]
ErrorCodes == {401, 404, 429, 500}
Responses(bodies) ==
    {RaisedResponse}
    \cup {[raised |-> FALSE, code |-> c, json |-> FALSE, body |-> JNull] :
             c \in ErrorCodes \cup {200}}
    \cup {[raised |-> FALSE, code |-> 200, json |-> TRUE, body |-> b] : b \in bodies}

\* what the state keeps of the last response: not its body
Seen(r) == [raised |-> r.raised, code |-> r.code, json |-> r.json]
NoResp == [raised |-> FALSE, code |-> 0, json |-> FALSE]

\* random.uniform(0, 1.0) is 0 + 1.0 * random() with random() in [0, 1):
\* the draw is 0 or a fraction strictly between 0 and 1, and the sleep is
\* the delay plus the draw
Jitter == {"zero", "fraction"}
NoJitter == "none"

NoReq == [ep |-> "none", win |-> 0, task |-> JNull]
Req(ep, task) == [ep |-> ep, win |-> widx, task |-> task]

NoPolls == [n |-> 0, clean |-> TRUE]

NoExc == [type |-> "none", code |-> 0, msg |-> ""]
HTTPError(code) == [type |-> "HTTPError", code |-> code, msg |-> ""]
RequestException == [type |-> "RequestException", code |-> 0, msg |-> ""]
RuntimeError(msg) == [type |-> "RuntimeError", code |-> 0, msg |-> msg]
JSONDecodeError == [type |-> "JSONDecodeError", code |-> 0, msg |-> ""]
AttributeError == [type |-> "AttributeError", code |-> 0, msg |-> ""]
SinkError == [type |-> "SinkError", code |-> 0, msg |-> ""]

NoReport == [kind |-> "none", type |-> "", arg |-> ""]

\* date(year, 1, 1).toordinal() and date(year, 12, 31).toordinal()
Jan1(y) == 365 * (y - 1) + ((y - 1) \div 4) - ((y - 1) \div 100) + ((y - 1) \div 400) + 1
Dec31(y) == Jan1(y + 1) - 1

\* ------------------------------------------------------------------------
\* Initial states
\* ------------------------------------------------------------------------
\* the locals of fetch_window and of the functions it calls, before a call
FreshLocals ==
    /\ delay = 0 /\ hattempt = 0
    /\ payload = JNull /\ task_id = JNull /\ status = JNull
    /\ waited = 0 /\ step = 0 /\ polled = NoPolls
    /\ ddelay = 0 /\ dattempt = 0
    /\ data = <<>> /\ rows = <<>> /\ clean_rows = <<>> /\ chunk_i = 0
    /\ sent = <<>>

\* the same, as the effect of leaving fetch_window's frame
DropLocals ==
    /\ delay' = 0 /\ hattempt' = 0
    /\ payload' = JNull /\ task_id' = JNull /\ status' = JNull
    /\ waited' = 0 /\ step' = 0 /\ polled' = NoPolls
    /\ ddelay' = 0 /\ dattempt' = 0
    /\ data' = <<>> /\ rows' = <<>> /\ clean_rows' = <<>> /\ chunk_i' = 0
    /\ sent' = <<>>

InitRest ==
    /\ STATUS_MAX_WAIT = STATUS_MAX_WAIT_DEFAULT
    /\ exitCode = -1 /\ report = NoReport
    /\ plan = <<>> /\ widx = 0 /\ attempt = 0
    /\ FreshLocals
    /\ sink = <<>>
    /\ exc = NoExc /\ slept = 0 /\ jitter = NoJitter
    /\ lastReq = NoReq /\ lastResp = NoResp
    /\ netUsed = FALSE /\ created = JNull

\* the environments of the modelled runs: any of the required names may be
\* missing; WB_STATUS_MAX_WAIT is 0 or MaxWaitSet, or unset (the default)
Environs ==
    [present : SUBSET RequiredSet,
     wait : {WaitUnset, WaitSet(0), WaitSet(MaxWaitSet)}]

\* the command lines that end in __main__ itself
ArgvsNoMode == { <<>>, <<"report">> }

\* the year of the modelled backfill: 46 windows
BackfillYear == 2023

\* the command lines of the modes: plans of 46, 1, 0, 3, 0 and 2 windows
ArgvsMode ==
    { <<"backfill", BackfillYear>>, <<"sync">>, <<"sync", 0>>,
      <<"range", Today - 19, Today>>, <<"range", Today, Today - 1>>,
      <<"since", Today - 8>> }

Init ==
    /\ pc = "import"
    /\ environ \in Environs
    /\ argv \in ArgvsNoMode \cup ArgvsMode
    /\ (environ.wait = WaitUnset => argv \in ArgvsNoMode)
    /\ (argv \in ArgvsMode /\ argv[1] = "backfill" => environ.wait = WaitSet(0))
    /\ InitRest

\* ------------------------------------------------------------------------
\* Start-up and the modes
\* ------------------------------------------------------------------------
\* the first required name, in the order the module reads them, that the
\* environment lacks (0: none)
first_missing(present) ==
    IF \E i \in 1..Len(RequiredEnv) : RequiredEnv[i] \notin present
    THEN CHOOSE i \in 1..Len(RequiredEnv) :
           /\ RequiredEnv[i] \notin present
           /\ \A k \in 1..(i - 1) : RequiredEnv[k] \in present
    ELSE 0

\* the end of a process by an exception nothing catches
uncaught(type, arg) == [kind |-> "traceback", type |-> type, arg |-> arg]

\* the end of a process by the handler of __main__ for KeyError
missing_env_report(name) == [kind |-> "missing_env", type |-> "", arg |-> name]

\* the module-level statements: os.environ[...] raises KeyError outside any
\* try, int(os.getenv("WB_STATUS_MAX_WAIT", "900")) sets STATUS_MAX_WAIT
Import ==
    /\ pc = "import"
    /\ LET m == first_missing(environ.present)
       IN  IF m # 0
           THEN /\ pc' = "exit"
                /\ exitCode' = EXIT_ERROR
                /\ report' = uncaught("KeyError", RequiredEnv[m])
                /\ UNCHANGED STATUS_MAX_WAIT
           ELSE /\ pc' = "main"
                /\ STATUS_MAX_WAIT' =
                     IF environ.wait.set THEN environ.wait.val
                     ELSE STATUS_MAX_WAIT_DEFAULT
                /\ UNCHANGED endV
    /\ UNCHANGED <<cfgV, orchV, httpV, fetchV, pollV, dlV, upV, sink, exc,
                   slept, jitter, lastReq, lastResp, netUsed>>

Modes == {"backfill", "sync", "range", "since"}

\* the range (start, end) each mode hands to chunks_8days
mode_bounds(av) ==
    CASE av[1] = "backfill" -> <<Jan1(av[2]), Dec31(av[2])>>
      [] av[1] = "sync" ->
           LET days_back == IF Len(av) > 1 THEN av[2] ELSE SYNC_DAYS_DEFAULT
           IN  <<Today - (days_back - 1), Today>>
      [] av[1] = "range" -> <<av[2], av[3]>>
      [] av[1] = "since" -> <<av[2], Today>>

\* __main__: the usage and unknown-mode exits, or the mode's plan
Main ==
    /\ pc = "main"
    /\ IF Len(argv) < 1
       THEN /\ pc' = "exit" /\ exitCode' = EXIT_ERROR
            /\ report' = [kind |-> "usage", type |-> "", arg |-> ""]
            /\ UNCHANGED orchV
       ELSE IF argv[1] \notin Modes
       THEN /\ pc' = "exit" /\ exitCode' = EXIT_ERROR
            /\ report' = [kind |-> "unknown_mode", type |-> "", arg |-> ""]
            /\ UNCHANGED orchV
       ELSE /\ pc' = "loop"
            /\ plan' = chunks_8days(mode_bounds(argv)[1], mode_bounds(argv)[2])
            /\ widx' = 1 /\ attempt' = 0
            /\ UNCHANGED endV
    /\ UNCHANGED <<cfgV, STATUS_MAX_WAIT, httpV, fetchV, pollV, dlV, upV, sink,
                   exc, slept, jitter, lastReq, lastResp, netUsed>>

\* the mode's loop is over: the process ends
Finish ==
    /\ pc = "loop" /\ widx > Len(plan)
    /\ pc' = "exit" /\ exitCode' = 0
    /\ slept' = 0 /\ jitter' = NoJitter
    /\ UNCHANGED <<report, cfgV, STATUS_MAX_WAIT, orchV, httpV, fetchV, pollV,
                   dlV, upV, sink, exc, lastReq, lastResp, netUsed>>

\* for attempt in range(3): fetch_window(a, b) is called and calls http_get
StartAttempt ==
    /\ pc = "loop" /\ widx <= Len(plan) /\ attempt < WINDOW_ATTEMPTS
    /\ pc' = "create"
    /\ delay' = HTTP_DELAY0 /\ hattempt' = 1
    /\ slept' = 0 /\ lastReq' = NoReq /\ lastResp' = NoResp
    /\ jitter' = NoJitter
    /\ UNCHANGED <<cfgV, STATUS_MAX_WAIT, endV, orchV, fetchV, pollV, dlV, upV,
                   sink, exc, netUsed>>

\* where the retry loop goes after a failed attempt
after_failure_retry_always(a) == [widx |-> widx, attempt |-> Min(a + 1, WINDOW_ATTEMPTS - 1)]

after_failure_skip_early(a) == [widx |-> widx + 1, attempt |-> 0]

after_failure_restart(a) == [widx |-> widx, attempt |-> 0]

after_failure(a) ==
    IF a + 1 < WINDOW_ATTEMPTS
    THEN [widx |-> widx, attempt |-> a + 1]
    ELSE [widx |-> widx + 1, attempt |-> 0]

\* fetch_window returned: break, and the for loop takes the next window
Break ==
    /\ pc = "returned"
    /\ pc' = "loop"
    /\ widx' = widx + 1 /\ attempt' = 0
    /\ DropLocals
    /\ created' = JNull
    /\ slept' = 0 /\ lastReq' = NoReq /\ lastResp' = NoResp
    /\ jitter' = NoJitter
    /\ UNCHANGED <<cfgV, STATUS_MAX_WAIT, endV, plan, sink, exc, netUsed>>

\* except Exception as e: print("Retry:", e); time.sleep(10)
Except ==
    /\ pc = "raised"
    /\ pc' = "loop"
    /\ widx' = after_failure(attempt).widx
    /\ attempt' = after_failure(attempt).attempt
    /\ DropLocals
    /\ created' = JNull
    /\ exc' = NoExc
    /\ slept' = RETRY_SLEEP /\ lastReq' = NoReq /\ lastResp' = NoResp
    /\ jitter' = NoJitter
    /\ UNCHANGED <<cfgV, STATUS_MAX_WAIT, endV, plan, sink, netUsed>>

\* ------------------------------------------------------------------------
\* fetch_window and the client functions
\* ------------------------------------------------------------------------
RaiseNow(e) == pc' = "raised" /\ exc' = e /\ slept' = 0

\* rows = [normalize_row(r) for r in data]: row.get fails on a non-object
normalizable(d) == \A i \in 1..Len(d) : d[i].t = "dict"

\* fetch_window from its data to its call of upsert
Ingest(d) ==
    /\ data' = d
    /\ IF normalizable(d)
       THEN /\ rows' = normalize_all(d)
            /\ pc' = "write" /\ slept' = 0 /\ UNCHANGED exc
       ELSE /\ rows' = <<>>
            /\ RaiseNow(AttributeError)
    /\ UNCHANGED <<clean_rows, chunk_i, sent>>

\* what fetch_window does with poll_status's result
after_poll_always_download(st) == "download"

after_poll_timeout_fails(st) == IF st = JStr(W_done) THEN "download" ELSE "raise"

after_poll_error_downloads(st) ==
    IF st \in {JStr(W_done), JStr(W_error), JStr(W_failed)} THEN "download"
    ELSE "return"

after_poll(st) ==
    IF st = JStr(W_done) THEN "download"
    ELSE IF st \in {JStr(W_error), JStr(W_failed)} THEN "raise"
    ELSE "return"

\* The locals of a client function stay in the state its return leads to,
\* and the step after that forgets them.
ForgetHttp == delay' = 0 /\ hattempt' = 0
ForgetPoll == waited' = 0 /\ step' = 0 /\ UNCHANGED polled
ForgetDownload == ddelay' = 0 /\ dattempt' = 0

\* one request of http_get's loop, and what follows it without a request,
\* for the bodies the create endpoint may answer with
CreateWith(bodies) ==
    /\ pc = "create"
    /\ \E r \in Responses(bodies), j \in Jitter :
         /\ lastReq' = Req("create", JNull)
         /\ lastResp' = Seen(r)
         /\ netUsed' = TRUE
         /\ jitter' = IF ~r.raised /\ http_class(r.code) = "retry" THEN j
                       ELSE NoJitter
         /\ IF r.raised
            THEN /\ RaiseNow(RequestException)
                 /\ UNCHANGED <<httpV, fetchV, pollV, upV>>
            ELSE IF http_class(r.code) = "auth"
            THEN /\ RaiseNow(HTTPError(r.code))
                 /\ UNCHANGED <<httpV, fetchV, pollV, upV>>
            ELSE IF http_class(r.code) = "retry"
            THEN /\ slept' = delay
                 /\ delay' = next_delay(delay)
                 /\ IF hattempt < HTTP_ATTEMPTS
                    THEN /\ hattempt' = hattempt + 1
                         /\ pc' = "create" /\ UNCHANGED exc
                    ELSE /\ hattempt' = hattempt
                         /\ pc' = "raised"
                         /\ exc' = RuntimeError("WB request failed after retries")
                 /\ UNCHANGED <<fetchV, pollV, upV>>
            ELSE IF http_class(r.code) = "error"
            THEN /\ RaiseNow(HTTPError(r.code))
                 /\ UNCHANGED <<httpV, fetchV, pollV, upV>>
            ELSE IF ~json_parses(r)
            THEN /\ RaiseNow(RuntimeError("WB returned non-JSON"))
                 /\ UNCHANGED <<httpV, fetchV, pollV, upV>>
            ELSE /\ payload' = r.body
                 /\ task_id' = task_id_of(r.body)
                 /\ created' = task_id_of(r.body)
                 /\ UNCHANGED <<httpV, status>>
                 /\ IF extract_rows(r.body) = <<>> /\ Truthy(task_id_of(r.body))
                    THEN /\ pc' = "poll"
                         /\ waited' = 0 /\ step' = STATUS_POLL_STEP_MIN
                         /\ polled' = NoPolls
                         /\ slept' = 0
                         /\ UNCHANGED <<exc, upV>>
                    ELSE /\ Ingest(extract_rows(r.body))
                         /\ UNCHANGED pollV
    /\ UNCHANGED <<cfgV, STATUS_MAX_WAIT, endV, orchV, dlV, sink>>

Create == CreateWith(CreateBodies)

\* the while test of poll_status fails: "timeout" goes back to fetch_window,
\* which prints and returns
PollTimeout ==
    /\ pc = "poll"
    /\ ~(waited < STATUS_MAX_WAIT)
    /\ status' = JStr(W_timeout)
    /\ IF after_poll(JStr(W_timeout)) = "return"
       THEN pc' = "returned" /\ UNCHANGED <<exc, dlV>>
       ELSE IF after_poll(JStr(W_timeout)) = "raise"
       THEN pc' = "raised" /\ exc' = RuntimeError("Task failed") /\ UNCHANGED dlV
       ELSE pc' = "download" /\ ddelay' = DL_DELAY0 /\ dattempt' = 1 /\ UNCHANGED exc
    /\ slept' = 0 /\ lastReq' = NoReq /\ lastResp' = NoResp
    /\ jitter' = NoJitter
    /\ ForgetHttp
    /\ UNCHANGED <<cfgV, STATUS_MAX_WAIT, endV, orchV, payload, task_id, created,
                   pollV, upV, sink, netUsed>>

\* one request of poll_status's loop, and what follows it without a request
Poll ==
    /\ pc = "poll"
    /\ jitter' = NoJitter
    /\ waited < STATUS_MAX_WAIT
    /\ \E r \in Responses(StatusBodies) :
         /\ lastReq' = Req("status", task_id)
         /\ lastResp' = Seen(r)
         /\ netUsed' = TRUE
         /\ IF r.raised
            THEN RaiseNow(RequestException) /\ UNCHANGED <<status, pollV, dlV>>
            ELSE IF http_class(r.code) = "auth"
            THEN RaiseNow(HTTPError(r.code)) /\ UNCHANGED <<status, pollV, dlV>>
            ELSE IF http_class(r.code) = "retry"
            THEN /\ slept' = step
                 /\ waited' = waited + step
                 /\ step' = next_step(step)
                 /\ polled' = [polled EXCEPT !.clean = FALSE]
                 /\ pc' = "poll"
                 /\ UNCHANGED <<status, exc, dlV>>
            ELSE IF http_class(r.code) = "error"
            THEN RaiseNow(HTTPError(r.code)) /\ UNCHANGED <<status, pollV, dlV>>
            ELSE IF ~json_parses(r)
            THEN RaiseNow(JSONDecodeError) /\ UNCHANGED <<status, pollV, dlV>>
            ELSE IF ~status_parses(r.body)
            THEN RaiseNow(AttributeError) /\ UNCHANGED <<status, pollV, dlV>>
            ELSE IF is_terminal(status_of(r.body))
            THEN /\ status' = status_of(r.body)
                 /\ slept' = 0
                 /\ UNCHANGED pollV
                 /\ IF after_poll(status_of(r.body)) = "download"
                    THEN /\ pc' = "download"
                         /\ ddelay' = DL_DELAY0 /\ dattempt' = 1
                         /\ UNCHANGED exc
                    ELSE IF after_poll(status_of(r.body)) = "raise"
                    THEN /\ pc' = "raised"
                         /\ exc' = RuntimeError("Task failed")
                         /\ UNCHANGED dlV
                    ELSE /\ pc' = "returned"
                         /\ UNCHANGED <<exc, dlV>>
            ELSE /\ slept' = step
                 /\ waited' = waited + step
                 /\ step' = next_step(step)
                 /\ polled' = [polled EXCEPT !.n = @ + 1]
                 /\ pc' = "poll"
                 /\ UNCHANGED <<status, exc, dlV>>
    /\ ForgetHttp
    /\ UNCHANGED <<cfgV, STATUS_MAX_WAIT, endV, orchV, payload, task_id, created,
                   upV, sink>>

\* one request of download_report's loop, and what follows it without a request
Download ==
    /\ pc = "download"
    /\ jitter' = NoJitter
    /\ \E r \in Responses(DownloadBodies) :
         /\ lastReq' = Req("download", task_id)
         /\ lastResp' = Seen(r)
         /\ netUsed' = TRUE
         /\ IF r.raised
            THEN RaiseNow(RequestException) /\ UNCHANGED <<dlV, upV>>
            ELSE IF download_class(r.code) = "auth"
            THEN RaiseNow(HTTPError(r.code)) /\ UNCHANGED <<dlV, upV>>
            ELSE IF download_class(r.code) = "retry"
            THEN /\ slept' = ddelay
                 /\ ddelay' = next_download_delay(ddelay)
                 /\ IF dattempt < DOWNLOAD_RETRIES
                    THEN /\ dattempt' = dattempt + 1
                         /\ pc' = "download" /\ UNCHANGED exc
                    ELSE /\ dattempt' = dattempt
                         /\ pc' = "raised"
                         /\ exc' = RuntimeError("WB download failed after retries")
                 /\ UNCHANGED upV
            ELSE IF download_class(r.code) = "error"
            THEN RaiseNow(HTTPError(r.code)) /\ UNCHANGED <<dlV, upV>>
            ELSE IF ~json_parses(r)
            THEN RaiseNow(JSONDecodeError) /\ UNCHANGED <<dlV, upV>>
            ELSE Ingest(extract_rows(r.body)) /\ UNCHANGED dlV
    /\ ForgetPoll
    /\ UNCHANGED <<cfgV, STATUS_MAX_WAIT, endV, orchV, httpV, fetchV, sink>>

\* upsert(rows) up to its first write: nothing to do for no rows (and
\* fetch_window pauses and returns), else the de-duplication
UpsertCall ==
    /\ pc = "write"
    /\ IF rows = <<>>
       THEN /\ pc' = "returned" /\ slept' = WINDOW_PAUSE
            /\ UNCHANGED <<clean_rows, chunk_i>>
       ELSE /\ pc' = "upsert" /\ slept' = 0
            /\ clean_rows' = clean_rows_of(rows)
            /\ chunk_i' = 0
    /\ sent' = <<>>
    /\ lastReq' = NoReq /\ lastResp' = NoResp
    /\ jitter' = NoJitter
    /\ ForgetHttp /\ ForgetDownload
    /\ UNCHANGED <<cfgV, STATUS_MAX_WAIT, endV, orchV, fetchV, pollV,
                   data, rows, sink, exc, netUsed>>

\* one chunk of upsert's loop: the sink takes it or the call raises; after
\* the last chunk fetch_window pauses and returns
Upsert ==
    /\ pc = "upsert"
    /\ jitter' = NoJitter
    /\ \E ok \in BOOLEAN :
         /\ lastReq' = Req("sink", JNull)
         /\ lastResp' = IF ok THEN NoResp ELSE Seen(RaisedResponse)
         /\ netUsed' = TRUE
         /\ sent' = sent \o chunk_at(clean_rows, chunk_i)
         /\ IF ok
            THEN /\ sink' = sink_upsert(sink, chunk_at(clean_rows, chunk_i))
                 /\ chunk_i' = chunk_i + BATCH_SIZE
                 /\ IF chunk_i + BATCH_SIZE < Len(clean_rows)
                    THEN pc' = "upsert" /\ slept' = 0
                    ELSE pc' = "returned" /\ slept' = WINDOW_PAUSE
                 /\ UNCHANGED exc
            ELSE /\ RaiseNow(SinkError)
                 /\ UNCHANGED <<sink, chunk_i>>
    /\ UNCHANGED <<cfgV, STATUS_MAX_WAIT, endV, orchV, httpV, fetchV, pollV, dlV,
                   data, rows, clean_rows>>

Next ==
    \/ Import \/ Main \/ StartAttempt \/ Create \/ PollTimeout \/ Poll
    \/ Download \/ UpsertCall \/ Upsert \/ Break \/ Except \/ Finish

Spec == Init /\ [][Next]_vars

\* ------------------------------------------------------------------------
\* The window planner on its own: mode_range on every pair of dates of
\* Today .. Today + ChunkSpan, in either order
\* ------------------------------------------------------------------------
FullEnv == [present |-> RequiredSet, wait |-> WaitSet(0)]

InitChunks ==
    /\ pc = "main"
    /\ environ = FullEnv
    /\ argv \in {<<"range", a, b>> : a, b \in Today..(Today + ChunkSpan)}
    /\ STATUS_MAX_WAIT = 0
    /\ exitCode = -1 /\ report = NoReport
    /\ plan = <<>> /\ widx = 0 /\ attempt = 0
    /\ FreshLocals
    /\ sink = <<>>
    /\ exc = NoExc /\ slept = 0 /\ jitter = NoJitter
    /\ lastReq = NoReq /\ lastResp = NoResp
    /\ netUsed = FALSE /\ created = JNull

NextChunks == Main

SpecChunks == InitChunks /\ [][NextChunks]_vars

\* the days of window w, and its two ends
WinStart(w) == w[1]
WinEnd(w) == w[2]

\* C1: for start <= end the plan is a non-empty ascending sequence of closed
\* windows, each of 1 to 8 days, the first starting at start, the last
\* ending at end, each starting the day after the one before it ends, so
\* that every day of [start, end] lies in exactly one window and no window
\* holds a day outside it; for start = end it is the one window (start, start).
C1_WindowsPartitionRange ==
    (pc = "loop" /\ argv[1] = "range" /\ argv[2] <= argv[3]) =>
        LET start == argv[2]
            end == argv[3]
            n == Len(plan)
        IN  /\ n >= 1
            /\ WinStart(plan[1]) = start
            /\ WinEnd(plan[n]) = end
            /\ \A i \in 1..n :
                 /\ WinStart(plan[i]) <= WinEnd(plan[i])
                 /\ WinEnd(plan[i]) - WinStart(plan[i]) + 1 <= 8
                 /\ start <= WinStart(plan[i]) /\ WinEnd(plan[i]) <= end
            /\ \A i \in 1..(n - 1) : WinStart(plan[i + 1]) = WinEnd(plan[i]) + 1
            /\ \A d \in start..end :
                 Cardinality({i \in 1..n :
                                WinStart(plan[i]) <= d /\ d <= WinEnd(plan[i])}) = 1
            /\ (start = end => plan = <<<<start, start>>>>)

\* a range of more than two windows whose last window is shorter than 8 days
C1_Witness ==
    /\ pc = "loop" /\ argv[1] = "range"
    /\ argv[3] - argv[2] = 19
    /\ Len(plan) = 3
    /\ WinEnd(plan[3]) - WinStart(plan[3]) = 3

\* ------------------------------------------------------------------------
\* The sink writer on its own: fetch_window at its call of upsert, for every
\* list of at most MaxBatch raw rows
\* ------------------------------------------------------------------------
RawRows == {R1, R2, R3, R4}

RawBatches == UNION {[1..n -> RawRows] : n \in 0..MaxBatch}

InitUpsert ==
    /\ pc = "write"
    /\ data \in RawBatches
    /\ environ = FullEnv
    /\ argv = <<"range", Today, Today>>
    /\ STATUS_MAX_WAIT = 0
    /\ exitCode = -1 /\ report = NoReport
    /\ plan = chunks_8days(Today, Today) /\ widx = 1 /\ attempt = 0
    /\ delay = HTTP_DELAY0 /\ hattempt = 1
    /\ payload = JList(data) /\ task_id = JNull /\ status = JNull
    /\ waited = 0 /\ step = 0 /\ polled = NoPolls
    /\ ddelay = 0 /\ dattempt = 0
    /\ rows = normalize_all(data)
    /\ clean_rows = <<>> /\ chunk_i = 0 /\ sent = <<>>
    /\ sink = <<>>
    /\ exc = NoExc /\ slept = 0 /\ jitter = NoJitter
    /\ lastReq = [ep |-> "create", win |-> 1, task |-> JNull]
    /\ lastResp = [raised |-> FALSE, code |-> 200, json |-> TRUE]
    /\ netUsed = TRUE /\ created = JNull

NextUpsert == UpsertCall \/ Upsert

SpecUpsert == InitUpsert /\ [][NextUpsert]_vars

\* the last position of rows that holds a record with the key k (0: none)
LastWithKey(rs, k) ==
    IF \E i \in 1..Len(rs) : KeyOf(rs[i]) = k
    THEN CHOOSE i \in 1..Len(rs) :
           /\ KeyOf(rs[i]) = k
           /\ \A i2 \in (i + 1)..Len(rs) : KeyOf(rs[i2]) # k
    ELSE 0

\* C7: once upsert has de-duplicated a batch, the records it sends hold no
\* key twice, each is the last record of the batch with its key, and when
\* the call has returned every key of the batch was sent; the records sent
\* so far are always the first ones of that list.
C7_LastWriteWinsPerKey ==
    (pc \in {"upsert", "returned", "raised"} /\ rows # <<>>) =>
        /\ \A j, k \in 1..Len(clean_rows) :
             j # k => KeyOf(clean_rows[j]) # KeyOf(clean_rows[k])
        /\ \A j \in 1..Len(clean_rows) :
             /\ LastWithKey(rows, KeyOf(clean_rows[j])) # 0
             /\ clean_rows[j] = rows[LastWithKey(rows, KeyOf(clean_rows[j]))]
        /\ \A i \in 1..Len(rows) :
             \E j \in 1..Len(clean_rows) : KeyOf(clean_rows[j]) = KeyOf(rows[i])
        /\ Len(sent) <= Len(clean_rows)
        /\ sent = SubSeq(clean_rows, 1, Len(sent))
        /\ (pc = "returned" => sent = clean_rows)

\* a batch of four records on three keys, the two records of one key
\* differing, written in two chunks
C7_Witness ==
    /\ pc = "returned"
    /\ Len(rows) = 4 /\ Len(sent) = 3
    /\ \E i, k \in 1..Len(rows) :
         i < k /\ KeyOf(rows[i]) = KeyOf(rows[k]) /\ rows[i] # rows[k]
    /\ DOMAIN sink = {KeyOf(rows[i]) : i \in 1..Len(rows)}

\* ------------------------------------------------------------------------
\* Claims about the whole run
\* ------------------------------------------------------------------------
\* a response answered with 429 or a 5xx status
Got429or5xx(resp) == resp.code = 429 \/ (resp.code >= 500 /\ resp.code <= 599)

\* a response with a status that is no error and a body that parses
Got200Json(resp) == ~resp.raised /\ resp.code = 200 /\ resp.json

\* the base delays of http_get's successive attempts
Backoff == <<2, 4, 8, 16, 30, 30>>

C2_Inv ==
    pc = "create" => hattempt \in 1..6 /\ delay = Backoff[hattempt]

C2_Step ==
    pc = "create" =>
        /\ lastReq'.ep = "create"
        /\ (Got429or5xx(lastResp') =>
              /\ slept' = delay /\ jitter' \in Jitter
              /\ delay' >= delay /\ delay' <= 30
              /\ payload' = JNull
              /\ IF hattempt <= 5
                 THEN pc' = "create" /\ hattempt' = hattempt + 1 /\ exc' = NoExc
                 ELSE /\ pc' = "raised"
                      /\ exc' = RuntimeError("WB request failed after retries"))
        /\ (Got200Json(lastResp') =>
              /\ payload' \in CreateBodies
              /\ exc' \in {NoExc, AttributeError}
              /\ pc' \in {"poll", "write", "raised"})
        /\ (pc' = "create" => Got429or5xx(lastResp'))

\* C2: in http_get the base delay of attempt k is 2, 4, 8, 16, 30, 30 (never
\* decreasing, never above 30), each sleep is the base delay plus a jitter
\* below one second;
\* there are at most 6 requests per call; a 200 with a JSON body at any of
\* the 6 attempts (after at most 5 responses 429 or 5xx) makes http_get
\* return that payload, and a 429 or 5xx at the sixth attempt ends the call
\* with the "failed after retries" error and no payload.
C2_BackoffBoundedAndCapped == []C2_Inv /\ [][C2_Step]_vars

\* http_get returned a payload at its sixth attempt, after five sleeps
C2_Witness ==
    /\ pc \in {"poll", "write"}
    /\ hattempt = 6 /\ delay = 30
    /\ lastReq.ep = "create" /\ Got200Json(lastResp)
    /\ payload # JNull

ClientEndpoints == {"create", "status", "download"}

\* C3: a 401 from any of the three endpoints makes the client function that
\* received it raise at once: within that step it does not sleep, its attempt
\* counters and waits do not move, and the call is over with the HTTP error
\* of the 401 (what the caller of the client function does next is not part
\* of this claim).
C3_AuthFailureShortCircuits ==
    [][(lastReq'.ep \in ClientEndpoints /\ lastResp'.code = 401) =>
          /\ pc' = "raised"
          /\ exc' = HTTPError(401)
          /\ slept' = 0
          /\ (pc = "create" => hattempt' = hattempt /\ delay' = delay)
          /\ (pc = "poll" => waited' = waited /\ step' = step)
          /\ (pc = "download" => dattempt' = dattempt /\ ddelay' = ddelay)]_vars

\* a status request, after earlier polls of the same call, was answered 401
C3_Witness ==
    /\ pc = "raised" /\ exc = HTTPError(401)
    /\ lastReq.ep = "status" /\ lastResp.code = 401
    /\ waited > 0 /\ slept = 0

C4_Inv ==
    /\ (status = JStr(W_timeout) => pc = "returned" /\ exc = NoExc)
    /\ (pc = "raised" /\ status = JStr(W_done) =>
          \/ lastReq.ep = "download"
          \/ lastReq.ep = "sink" /\ exc = SinkError)
    /\ (pc = "returned" /\ status = JStr(W_done) =>
          /\ exc = NoExc
          /\ rows = normalize_all(data)
          /\ sent = clean_rows
          /\ \A i \in 1..Len(rows) :
               KeyOf(rows[i]) \in DOMAIN sink)

C4_Step ==
    /\ (pc = "poll" /\ waited >= STATUS_MAX_WAIT =>
          /\ status' = JStr(W_timeout) /\ pc' = "returned"
          /\ lastReq' = NoReq /\ exc' = NoExc)
    /\ (pc = "poll" /\ waited < STATUS_MAX_WAIT =>
          /\ lastReq'.ep = "status"
          /\ (polled'.n = polled.n + 1 =>
                pc' = "poll" /\ exc' = NoExc /\ waited' > waited)
          /\ (status' = JStr(W_done) =>
                pc' = "download" /\ exc' = NoExc /\ dattempt' = 1))
    /\ (pc = "download" /\ Got200Json(lastResp') =>
          \/ pc' = "write" /\ exc' = NoExc /\ rows' = normalize_all(data')
          \/ pc' = "raised" /\ exc' = AttributeError)
    /\ (pc = "write" => pc' \in {"upsert", "returned"} /\ exc' = NoExc)
    /\ (pc = "upsert" /\ ~lastResp'.raised =>
          pc' \in {"upsert", "returned"} /\ exc' = NoExc)

\* C4: while the wait budget lasts every non-terminal status keeps
\* poll_status polling without an exception; a done status then makes
\* fetch_window download, and with a payload of rows and a sink that takes
\* every chunk fetch_window returns normally, the normalized rows handed to
\* upsert and stored; an attempt that saw done and raised failed in the
\* download or in the sink.  When the budget is used up poll_status gives
\* "timeout" without a request and fetch_window returns normally: no
\* exception is in flight.
C4_PollOutcomes == []C4_Inv /\ [][C4_Step]_vars

\* fetch_window returned after the statuses (non-terminal) x 3, done, a
\* download and a write to the sink
C4_Witness ==
    /\ pc = "returned" /\ exc = NoExc
    /\ status = JStr(W_done)
    /\ polled = [n |-> 3, clean |-> TRUE]
    /\ Len(data) > 0 /\ sent # <<>> /\ DOMAIN sink # {}

\* the process ran one of the modes
RanMode == first_missing(environ.present) = 0 /\ Len(argv) >= 1 /\ argv[1] \in Modes

\* the steps inside fetch_window and the functions it calls
InAttempt == pc \in {"create", "poll", "download", "write", "upsert"}

C5_Inv ==
    /\ (lastReq.ep # "none" => lastReq.win = widx)
    /\ (pc = "exit" /\ RanMode => exitCode = 0 /\ widx = Len(plan) + 1)

C5_Step ==
    /\ (pc = "poll" /\ waited >= STATUS_MAX_WAIT =>
          /\ status' = JStr(W_timeout) /\ pc' = "returned"
          /\ lastReq' = NoReq /\ sink' = sink)
    /\ (pc = "returned" /\ status = JStr(W_timeout) =>
          /\ pc' = "loop" /\ widx' = widx + 1 /\ attempt' = 0
          /\ lastReq' = NoReq /\ sink' = sink)
    /\ (pc # "main" => widx' >= widx)
    /\ (pc = "loop" /\ widx <= Len(plan) => pc' = "create" /\ widx' = widx)

\* C5: when poll_status gives "timeout" fetch_window returns without a
\* request or a sink write; the retry loop then leaves the window for the
\* next one without another attempt, and as requests are always made for
\* the current window, which never goes back, none is made for the
\* timed-out window again; every window still in the plan is then attempted
\* in its turn, and a process that ran a mode ends with exit status 0, all
\* windows gone through.
C5_TimeoutDefersWindow == []C5_Inv /\ [][C5_Step]_vars

\* a window with windows after it timed out after polls
C5_Witness ==
    /\ pc = "returned" /\ status = JStr(W_timeout)
    /\ polled.n > 0 /\ widx < Len(plan)
    /\ STATUS_MAX_WAIT > 0

C6_Inv ==
    /\ (pc \in {"loop", "raised", "returned"} \cup {"create", "poll", "download",
                "write", "upsert"} => attempt \in 0..2)
    /\ (pc = "exit" /\ RanMode => widx = Len(plan) + 1)
    /\ (InAttempt \/ pc \in {"raised", "returned"} => widx \in 1..Len(plan))

C6_Step ==
    /\ (pc = "loop" /\ widx <= Len(plan) =>
          /\ pc' = "create" /\ hattempt' = 1 /\ delay' = 2
          /\ widx' = widx /\ attempt' = attempt
          /\ task_id' = JNull /\ payload' = JNull)
    /\ (pc = "loop" /\ widx > Len(plan) => pc' = "exit")
    /\ (pc = "returned" =>
          pc' = "loop" /\ widx' = widx + 1 /\ attempt' = 0)
    /\ (pc = "raised" =>
          /\ pc' = "loop"
          /\ IF attempt < 2
             THEN widx' = widx /\ attempt' = attempt + 1
             ELSE widx' = widx + 1 /\ attempt' = 0)
    /\ (InAttempt => widx' = widx /\ attempt' = attempt)
    /\ (\A k \in DOMAIN sink : k \in DOMAIN sink')

\* C6: in every mode the retry loop's variable is 0, 1 or 2, so a window is
\* attempted at most 3 times; every attempt starts http_get afresh, with no
\* task; an attempt that returns takes the loop to the next window; one
\* that raises takes it to the next attempt of the same window, or after
\* the third to the next window; the window changes in no other way, the
\* process ends only when no window is left, and no step removes a key
\* from the sink.
C6_ThreeAttemptsThenNextWindow == []C6_Inv /\ [][C6_Step]_vars

\* the third attempt of the second of three windows raised, with records
\* of an earlier write in the sink
C6_Witness ==
    /\ pc = "raised" /\ attempt = 2
    /\ widx = 2 /\ Len(plan) = 3
    /\ DOMAIN sink # {}

\* the natural key of R1 and R2, and of R3
Key12 == <<JStr(C_2024_03_01), JInt(1), JInt(1), JInt(1)>>
Key3 == <<JStr(C_2024_03_02), JInt(1), JInt(1), JInt(1)>>

\* C8: when a window's task was polled to done and the download gave the
\* three rows R1, R2, R3, of which R1 and R2 share the natural key and
\* differ in content, the sink was sent exactly 2 records, and it stores
\* for the shared key the record of R2, the later row.
C8_EndToEndDedup ==
    (pc = "returned" /\ status = JStr(W_done) /\ data = <<R1, R2, R3>>) =>
        /\ Len(sent) = 2
        /\ {sent[i] : i \in 1..Len(sent)} = {normalize_row(R2), normalize_row(R3)}
        /\ Key12 \in DOMAIN sink /\ sink[Key12] = normalize_row(R2)
        /\ sink[Key12]["volume"] = JInt(2)
        /\ Key3 \in DOMAIN sink /\ sink[Key3] = normalize_row(R3)

\* sync's window 2024-03-01..2024-03-08: done after 2 polls, then the rows
C8_Witness ==
    /\ pc = "returned" /\ status = JStr(W_done) /\ data = <<R1, R2, R3>>
    /\ argv = <<"sync">> /\ plan[widx] = <<Today - 7, Today>>
    /\ polled = [n |-> 2, clean |-> TRUE]
    /\ normalize_row(R1) # normalize_row(R2)

C9_Inv ==
    /\ (lastReq.ep # "none" => lastReq.win = widx /\ widx \in 1..Len(plan))
    /\ (lastReq.ep \in {"status", "download"} =>
          lastReq.task = created /\ Truthy(created) /\ created = task_id)
    /\ (pc \in {"poll", "download"} => Truthy(task_id) /\ task_id = created)
    /\ \A i \in 1..(Len(plan) - 1) : WinEnd(plan[i]) < WinStart(plan[i + 1])

C9_Step ==
    /\ (pc # "main" => widx' \in {widx, widx + 1})
    /\ (pc # "main" /\ widx' # widx =>
          /\ pc = "returned" \/ (pc = "raised" /\ attempt = 2)
          /\ lastReq' = NoReq
          /\ pc' = "loop")
    /\ (lastReq'.ep = "create" => created' = task_id')
    /\ (lastReq'.ep \in {"status", "download", "sink"} =>
          created' = created /\ task_id' = task_id)

\* C9: the plan is in ascending date order; every request and sink write
\* is made for the current window; the current window only moves to the
\* next one, by a step that issues no request, after fetch_window returned
\* (done or soft timeout) or its third attempt raised; status and download
\* requests name the task the most recent create request returned, which
\* no later status, download or sink step changes.
C9_OneWindowOneTaskAtATime == []C9_Inv /\ [][C9_Step]_vars

\* the second window's task is downloaded with records of the first stored
C9_Witness ==
    /\ lastReq.ep = "download" /\ lastReq.win = 2
    /\ lastReq.task = T2 /\ created = T2
    /\ DOMAIN sink # {}

\* C10: a process that lacks a required variable ends with a non-zero exit
\* status, has issued no request and no sink write, and reports the missing
\* variable the way the handler of __main__ does.
C10_MissingConfigReported ==
    (pc = "exit" /\ first_missing(environ.present) # 0) =>
        /\ exitCode # 0
        /\ ~netUsed
        /\ report = missing_env_report(RequiredEnv[first_missing(environ.present)])
        /\ exitCode = EXIT_MISSING_ENV

\* C11: an attempt that ended with the HTTP error of a 401 is the last one
\* of its window: the retry loop's next step leaves the window, so that (as
\* requests are made for the current window only, which never goes back) no
\* further request is issued for the window that was answered 401.
C11_AuthFailureEndsWindow ==
    [][(pc = "raised" /\ exc = HTTPError(401)) =>
          /\ pc' = "loop"
          /\ widx' = widx + 1 /\ attempt' = 0]_vars

\* C12: a 5xx response from any of the three endpoints makes the client
\* function that received it sleep and go round its loop again, or, at its
\* last attempt, end with its "failed after retries" error; it does not end
\* with the HTTP error of the first 5xx.
C12_ServerErrorRetriedEverywhere ==
    [][(lastReq'.ep \in ClientEndpoints /\ ~lastResp'.raised
          /\ lastResp'.code >= 500 /\ lastResp'.code <= 599) =>
          /\ slept' > 0
          /\ exc' # HTTPError(lastResp'.code)
          /\ \/ pc' = pc /\ exc' = NoExc
             \/ /\ pc' = "raised"
                /\ exc'.type = "RuntimeError"
                /\ (pc = "create" => hattempt = HTTP_ATTEMPTS)
                /\ (pc = "download" => dattempt = DOWNLOAD_RETRIES)
                /\ pc # "poll"]_vars

\* the cooldowns of download_report's successive attempts
Cooldown == <<65, 80, 95, 110, 120, 120>>

C13_Inv ==
    pc = "download" => dattempt \in 1..6 /\ ddelay = Cooldown[dattempt]

C13_Step ==
    pc = "download" =>
        /\ lastReq'.ep = "download"
        /\ (lastResp'.code = 429 =>
              /\ slept' = ddelay
              /\ slept' >= 60 /\ slept' > HTTP_DELAY_CAP
              /\ ddelay' >= ddelay /\ ddelay' - ddelay <= 15 /\ ddelay' <= 120
              /\ IF dattempt <= 5
                 THEN pc' = "download" /\ dattempt' = dattempt + 1 /\ exc' = NoExc
                 ELSE /\ pc' = "raised"
                      /\ exc' = RuntimeError("WB download failed after retries"))
        /\ (pc' = "download" => lastResp'.code = 429)

\* C13: in download_report the cooldown of attempt k is 65, 80, 95, 110,
\* 120, 120: every 429 is followed by a sleep of the cooldown, which is at
\* least 60 s and above http_get's cap of 30 s, never decreases, grows by
\* at most 15 s and never exceeds 120 s; only a 429 leads to another
\* download request, there are at most 6 per call, and a 429 at the sixth
\* ends the call with the "download failed after retries" error.
C13_DownloadCooldown == []C13_Inv /\ [][C13_Step]_vars

\* download_report gave up after six 429s, the last cooldown at the ceiling
C13_Witness ==
    /\ pc = "raised"
    /\ exc = RuntimeError("WB download failed after retries")
    /\ lastReq.ep = "download" /\ lastResp.code = 429
    /\ dattempt = 6 /\ slept = 120

\* C14: a response with a status that is neither retried nor an error and a
\* body that does not parse as JSON ends the call of the client function
\* that received it with an error, at once: no sleep, no move of its
\* attempt counters or waits, no further request of that call (http_get
\* raises its "non-JSON" error, poll_status and download_report let the
\* decoder's error through).
C14_NonJsonNotRetried ==
    [][(/\ lastReq'.ep \in ClientEndpoints
        /\ ~lastResp'.raised /\ ~lastResp'.json
        /\ lastResp'.code >= 200 /\ lastResp'.code < 400) =>
          /\ pc' = "raised"
          /\ exc' = IF pc = "create" THEN RuntimeError("WB returned non-JSON")
                    ELSE JSONDecodeError
          /\ slept' = 0
          /\ (pc = "create" => hattempt' = hattempt /\ delay' = delay)
          /\ (pc = "poll" => waited' = waited /\ step' = step /\ polled' = polled)
          /\ (pc = "download" => dattempt' = dattempt /\ ddelay' = ddelay)
          /\ data' = data /\ sink' = sink]_vars

\* a download answered 200 with a body that is no JSON, after a retried 429
C14_Witness ==
    /\ pc = "raised" /\ exc = JSONDecodeError
    /\ lastReq.ep = "download"
    /\ lastResp = [raised |-> FALSE, code |-> 200, json |-> FALSE]
    /\ dattempt = 2 /\ slept = 0

C15_Inv ==
    /\ (lastReq.ep = "download" =>
          status = JStr(W_done) /\ lastReq.task = task_id /\ Truthy(task_id))
    /\ (pc = "download" => status = JStr(W_done))
    /\ (status \in {JStr(W_error), JStr(W_failed)} =>
          /\ pc = "raised" /\ exc = RuntimeError("Task failed")
          /\ lastReq.ep = "status" /\ lastReq.task = task_id
          /\ sent = <<>>)

C15_Step ==
    /\ (pc' = "download" /\ pc # "download" =>
          /\ pc = "poll"
          /\ lastReq' = Req("status", task_id) /\ Got200Json(lastResp')
          /\ status' = JStr(W_done) /\ task_id' = task_id)
    /\ (lastReq'.ep = "download" => pc = "download" /\ task_id' = task_id)
    /\ (pc = "poll" /\ status' \in {JStr(W_error), JStr(W_failed)} =>
          /\ pc' = "raised" /\ exc' = RuntimeError("Task failed")
          /\ sink' = sink /\ slept' = 0)
    /\ (pc = "raised" =>
          /\ pc' = "loop" /\ lastReq' = NoReq /\ sink' = sink
          /\ status' = JNull /\ task_id' = JNull)

\* C15: download_report is entered only from poll_status's step that was
\* given done by a status request for the attempt's task, and every
\* download request names that task; a status of error or failed ends the
\* polling and the attempt with fetch_window's "Task failed" error, and the
\* attempt is left, by the retry loop's next step, with no download request
\* and no sink write made in it.
C15_DownloadOnlyAfterDone == []C15_Inv /\ [][C15_Step]_vars

\* a task reported failed after two non-terminal statuses, with records of
\* an earlier write in the sink
C15_Witness ==
    /\ pc = "raised" /\ status = JStr(W_failed)
    /\ polled.n = 2
    /\ lastReq.ep = "status"
    /\ DOMAIN sink # {}

\* the records of clean_rows that upsert's loop takes at the 0-based
\* position i: at most BATCH_SIZE of them
ChunkFrom(i) ==
    [j \in 1..(IF Len(clean_rows) - i < BATCH_SIZE THEN Len(clean_rows) - i
               ELSE BATCH_SIZE) |-> clean_rows[i + j]]

\* the sink stores every one of these records under its key
Persisted(table, recs) ==
    \A j \in 1..Len(recs) :
        KeyOf(recs[j]) \in DOMAIN table /\ table[KeyOf(recs[j])] = recs[j]

C16_Inv ==
    /\ (pc = "upsert" =>
          /\ chunk_i % BATCH_SIZE = 0 /\ chunk_i < Len(clean_rows)
          /\ sent = SubSeq(clean_rows, 1, chunk_i)
          /\ Persisted(sink, sent))
    /\ (pc = "returned" /\ rows # <<>> =>
          sent = clean_rows /\ Persisted(sink, clean_rows))
    /\ (pc = "raised" /\ exc = SinkError =>
          /\ lastReq.ep = "sink"
          /\ sent = SubSeq(clean_rows, 1, chunk_i) \o ChunkFrom(chunk_i)
          /\ Persisted(sink, SubSeq(clean_rows, 1, chunk_i)))

C16_Step ==
    /\ (pc = "upsert" =>
          /\ lastReq'.ep = "sink"
          /\ Len(ChunkFrom(chunk_i)) \in 1..BATCH_SIZE
          /\ sent' = sent \o ChunkFrom(chunk_i)
          /\ IF lastResp'.raised
             THEN /\ pc' = "raised" /\ exc' = SinkError
                  /\ sink' = sink
             ELSE /\ Persisted(sink', ChunkFrom(chunk_i))
                  /\ \A k \in DOMAIN sink :
                       (\A j \in 1..Len(ChunkFrom(chunk_i)) :
                           KeyOf(ChunkFrom(chunk_i)[j]) # k) =>
                       k \in DOMAIN sink' /\ sink'[k] = sink[k]
                  /\ pc' = IF Len(sent') < Len(clean_rows) THEN "upsert"
                           ELSE "returned")
    /\ (pc = "raised" /\ exc = SinkError =>
          /\ pc' = "loop" /\ lastReq' = NoReq /\ sink' = sink
          /\ IF attempt + 1 < WINDOW_ATTEMPTS
             THEN widx' = widx /\ attempt' = attempt + 1
             ELSE widx' = widx + 1 /\ attempt' = 0)
    /\ (pc = "loop" /\ widx <= Len(plan) =>
          pc' = "create" /\ hattempt' = 1 /\ payload' = JNull /\ sink' = sink)

\* C16: upsert hands the de-duplicated records to the sink in chunks of 1 to
\* BATCH_SIZE records, each chunk the records that follow those already
\* handed over, so that on return every record was handed over once, in
\* order, and is stored; a chunk the sink refuses ends the call with the
\* sink's error before any later chunk is handed over, the chunks written
\* before it stay stored, and the retry loop then starts the window's next
\* attempt from its create request, or after the third attempt goes to the
\* next window.
C16_ChunkedWriteAndFailure == []C16_Inv /\ [][C16_Step]_vars

\* the sink refused the second chunk of a batch, with an attempt left
C16_Witness ==
    /\ pc = "raised" /\ exc = SinkError
    /\ chunk_i = BATCH_SIZE /\ Len(clean_rows) > BATCH_SIZE
    /\ Persisted(sink, SubSeq(clean_rows, 1, BATCH_SIZE))
    /\ attempt < 2

\* ------------------------------------------------------------------------
\* The payload shapes on their own: fetch_window at its call of http_get,
\* the create endpoint answering with any payload built from a few leaves
\* and objects of at most MaxShapeKeys keys
\* ------------------------------------------------------------------------
MaxShapeKeys == 2

ShapeLeaves ==
    { JNull, T1, JList(<<>>), JList(<<R3>>), JList(<<R1, R2>>) }

ShapeKeys == {"rows", "items", "elements", "list", "result", "taskId", "total"}

\* the objects with at most n of the keys, each holding a leaf
ShapeObjects(n) ==
    { JDict(f) : f \in UNION { [S -> ShapeLeaves] :
                     S \in {S \in SUBSET ShapeKeys : Cardinality(S) <= n} } }

\* obj with the key data holding v
WithData(obj, v) ==
    JDict([k \in DOMAIN obj.v \cup {"data"} |-> IF k = "data" THEN v ELSE obj.v[k]])

ShapeBodies ==
    ShapeLeaves
    \cup ShapeObjects(MaxShapeKeys)
    \cup { WithData(JDict(<<>>), v) : v \in ShapeLeaves \cup ShapeObjects(MaxShapeKeys) }
    \cup { WithData(o, v) : o \in ShapeObjects(1), v \in ShapeLeaves \cup ShapeObjects(1) }

InitExtract ==
    /\ pc = "create"
    /\ environ = FullEnv
    /\ argv = <<"range", Today, Today>>
    /\ STATUS_MAX_WAIT = 0
    /\ exitCode = -1 /\ report = NoReport
    /\ plan = chunks_8days(Today, Today) /\ widx = 1 /\ attempt = 0
    /\ delay = HTTP_DELAY0 /\ hattempt = 1
    /\ payload = JNull /\ task_id = JNull /\ status = JNull
    /\ waited = 0 /\ step = 0 /\ polled = NoPolls
    /\ ddelay = 0 /\ dattempt = 0
    /\ data = <<>> /\ rows = <<>> /\ clean_rows = <<>> /\ chunk_i = 0
    /\ sent = <<>> /\ sink = <<>>
    /\ exc = NoExc /\ slept = 0 /\ jitter = NoJitter
    /\ lastReq = NoReq /\ lastResp = NoResp
    /\ netUsed = FALSE /\ created = JNull

CreateAny == CreateWith(ShapeBodies)

NextExtract == CreateAny

SpecExtract == InitExtract /\ [][NextExtract]_vars

\* o is an object that holds a list under one of the known wrapper keys
Carries(o) ==
    /\ o.t = "dict"
    /\ \E i \in 1..Len(WrapperKeys) :
         WrapperKeys[i] \in DOMAIN o.v /\ o.v[WrapperKeys[i]].t = "list"

\* the list under the first such key, in probe order
FirstList(o) ==
    LET i == CHOOSE i \in 1..Len(WrapperKeys) :
               /\ WrapperKeys[i] \in DOMAIN o.v /\ o.v[WrapperKeys[i]].t = "list"
               /\ \A k \in 1..(i - 1) :
                    ~(WrapperKeys[k] \in DOMAIN o.v /\ o.v[WrapperKeys[k]].t = "list")
    IN  o.v[WrapperKeys[i]].v

\* http_get has just returned the payload to fetch_window
GotPayload == lastReq.ep = "create" /\ Got200Json(lastResp)

HasData(p) == p.t = "dict" /\ "data" \in DOMAIN p.v

\* C17 as stated: a list payload gives itself, an object whose data is a
\* list gives that list, an object that carries, or whose data object
\* carries, a list under a known wrapper key gives the list of the first
\* such key of one of the two, and every other payload gives no rows.
C17_ExtractRowsAsClaimed ==
    GotPayload =>
        LET objs == {o \in {payload} \cup (IF HasData(payload)
                                           THEN {payload.v["data"]} ELSE {}) :
                       Carries(o)}
        IN  IF payload.t = "list" THEN data = payload.v
            ELSE IF HasData(payload) /\ payload.v["data"].t = "list"
            THEN data = payload.v["data"].v
            ELSE IF objs # {} THEN data \in {FirstList(o) : o \in objs}
            ELSE data = <<>>

\* the value extract_rows looks into: the payload's data when the payload is
\* an object with a data key, else the payload itself
Probed(p) == IF HasData(p) THEN p.v["data"] ELSE p

\* C17 (amended): extract_rows gives a list for every payload and does not
\* raise: with v the payload's data when the payload is an object that has
\* a data key, and the payload itself otherwise, it gives v when v is a
\* list, the list under the first known wrapper key, in probe order, that
\* holds a list when v is an object with such a key, and no rows for every
\* other v (a scalar, null, an object without such a key); wrapper keys of
\* an object beside a data key are not looked at.
C17_ExtractRowsByShape ==
    GotPayload =>
        /\ data = IF Probed(payload).t = "list" THEN Probed(payload).v
                  ELSE IF Carries(Probed(payload)) THEN FirstList(Probed(payload))
                  ELSE <<>>
        /\ exc = NoExc

\* a payload whose data object holds lists under two wrapper keys gave the
\* list of the one probed first
C17_Witness ==
    /\ GotPayload
    /\ payload = JDict([data |-> JDict([result |-> JList(<<R1, R2>>),
                                        items |-> JList(<<R3>>)])])
    /\ data = <<R3>>
    /\ pc = "write"

\* ------------------------------------------------------------------------
\* The status polling on its own: fetch_window at its call of poll_status
\* for the task of a one-window range, for every wait budget of
\* -NegWaitPoll .. MaxWaitPoll (WB_STATUS_MAX_WAIT may be any integer)
\* ------------------------------------------------------------------------
NegWaitPoll == 21
MaxWaitPoll == 120

InitPoll ==
    /\ pc = "poll"
    /\ STATUS_MAX_WAIT \in (-NegWaitPoll)..MaxWaitPoll
    /\ environ = [present |-> RequiredSet, wait |-> WaitSet(STATUS_MAX_WAIT)]
    /\ argv = <<"range", Today, Today>>
    /\ exitCode = -1 /\ report = NoReport
    /\ plan = chunks_8days(Today, Today) /\ widx = 1 /\ attempt = 0
    /\ delay = HTTP_DELAY0 /\ hattempt = 1
    /\ payload = JDict([taskId |-> T2]) /\ task_id = T2 /\ created = T2
    /\ status = JNull
    /\ waited = 0 /\ step = STATUS_POLL_STEP_MIN /\ polled = NoPolls
    /\ ddelay = 0 /\ dattempt = 0
    /\ data = <<>> /\ rows = <<>> /\ clean_rows = <<>> /\ chunk_i = 0
    /\ sent = <<>> /\ sink = <<>>
    /\ exc = NoExc /\ slept = 0 /\ jitter = NoJitter
    /\ lastReq = [ep |-> "create", win |-> 1, task |-> JNull]
    /\ lastResp = [raised |-> FALSE, code |-> 200, json |-> TRUE]
    /\ netUsed = TRUE

NextPoll == Poll \/ PollTimeout \/ Break \/ Finish

SpecPoll == InitPoll /\ [][NextPoll]_vars

\* what C18 says of the loop while it runs
C18_Loop ==
    /\ (pc = "poll" =>
          /\ step >= 5 /\ step <= 20 /\ waited >= 0
          /\ (waited = 0 => step = 5))
    /\ (lastReq.ep = "status" => STATUS_MAX_WAIT > 0)

C18_Step ==
    /\ (lastReq'.ep = "status" => pc = "poll" /\ waited < STATUS_MAX_WAIT)
    /\ (pc = "poll" /\ pc' = "poll" =>
          /\ slept' = step
          /\ waited' = waited + step /\ waited' > waited
          /\ step' >= step
          /\ step' = IF step + 2 <= 20 THEN step + 2 ELSE 20)
    /\ (pc = "poll" /\ polled' # polled => pc' = "poll")
    /\ (pc = "poll" /\ status' = JStr(W_timeout) =>
          lastReq' = NoReq /\ waited' = waited /\ waited >= STATUS_MAX_WAIT)

\* C18 as stated: the interval starts at 5 s, grows by 2 s per poll up to
\* 20 s and never shrinks; every poll that does not end the call adds the
\* interval to the accumulated wait; a status request is issued only while
\* the accumulated wait is below STATUS_MAX_WAIT, none at all when that is
\* 0 or less; and when "timeout" is returned the accumulated wait is at
\* least STATUS_MAX_WAIT and less than STATUS_MAX_WAIT + 20.
C18_PollCadenceAsClaimed ==
    /\ [](/\ C18_Loop
          /\ (status = JStr(W_timeout) =>
                waited >= STATUS_MAX_WAIT /\ waited < STATUS_MAX_WAIT + 20))
    /\ [][C18_Step]_vars

\* C18 (amended): as above, but when "timeout" is returned the accumulated
\* wait is at least STATUS_MAX_WAIT and less than STATUS_MAX_WAIT + 20 if a
\* status request was issued (STATUS_MAX_WAIT > 0), and it is 0 if none was
\* (STATUS_MAX_WAIT <= 0, which may lie 20 or more below 0).
C18_PollCadence ==
    /\ [](/\ C18_Loop
          /\ (status = JStr(W_timeout) =>
                /\ waited >= STATUS_MAX_WAIT
                /\ (STATUS_MAX_WAIT > 0 => waited < STATUS_MAX_WAIT + 20)
                /\ (STATUS_MAX_WAIT <= 0 => waited = 0)))
    /\ [][C18_Step]_vars

\* a budget of 117 s ran out after ten polls, the last ones 20 s apart
C18_Witness ==
    /\ pc = "returned" /\ status = JStr(W_timeout)
    /\ STATUS_MAX_WAIT = 117 /\ waited = 136 /\ step = 20
    /\ polled = [n |-> 10, clean |-> TRUE]

\* the errors by which http_get and download_report give up retrying
RetriesExhausted ==
    { RuntimeError("WB request failed after retries"),
      RuntimeError("WB download failed after retries") }

C19_Inv ==
    /\ exc \notin RetriesExhausted
    /\ (pc = "raised" => ~Got429or5xx(lastResp))
    /\ (status = JStr(W_timeout) => pc \in {"returned", "loop", "exit"} /\ exc = NoExc)
    /\ (pc = "exit" => exitCode = 0 /\ widx = Len(plan) + 1)

C19_Step ==
    /\ (pc = "poll" /\ lastReq'.ep = "status" /\ Got429or5xx(lastResp') =>
          /\ pc' = "poll" /\ exc' = NoExc
          /\ slept' = step /\ waited' = waited + step
          /\ hattempt' = 0 /\ dattempt' = dattempt /\ attempt' = attempt)
    /\ (pc = "poll" /\ pc' = "returned" =>
          /\ waited >= STATUS_MAX_WAIT
          /\ status' = JStr(W_timeout) /\ lastReq' = NoReq)
    /\ (pc = "returned" =>
          /\ pc' = "loop" /\ widx' = widx + 1 /\ attempt' = 0
          /\ lastReq' = NoReq)
    /\ (pc = "loop" => pc' = "exit")

\* C19: a 429 or 5xx from the status endpoint never ends poll_status: the
\* function sleeps its interval, adds it to the accumulated wait and polls
\* again, whatever the number of such responses before, and no attempt
\* counter moves; no retries-exhausted error is ever raised by poll_status,
\* which ends on such responses only by the wait budget running out, with
\* "timeout"; fetch_window then returns without an exception and without a
\* request, and the retry loop leaves the window without another attempt
\* (here, the only window: the run ends with exit status 0).
C19_StatusErrorsUseWaitBudget == []C19_Inv /\ [][C19_Step]_vars

\* a status endpoint that answered 429 or 5xx to each of nine requests,
\* more than any attempt limit of the program, ended in a soft timeout
C19_Witness ==
    /\ pc = "returned" /\ status = JStr(W_timeout) /\ exc = NoExc
    /\ polled = [n |-> 0, clean |-> FALSE]
    /\ STATUS_MAX_WAIT = 100 /\ waited = 116

\* ------------------------------------------------------------------------
\* The whole run of a process that keeps running: a single thread, in which
\* every request returns or fails, takes its next step as long as it has one
\* ------------------------------------------------------------------------
\* the modelled runs but the backfill of a year
InitLive ==
    /\ Init
    /\ argv # <<"backfill", BackfillYear>>

SpecLive == InitLive /\ [][Next]_vars /\ WF_vars(Next)

C20_Inv ==
    /\ attempt \in 0..2
    /\ hattempt \in 0..6 /\ dattempt \in 0..6
    /\ (pc = "create" => hattempt \in 1..6)
    /\ (pc = "download" => dattempt \in 1..6)
    /\ (pc = "poll" =>
          /\ waited >= 0 /\ step >= 5
          /\ (STATUS_MAX_WAIT > 0 => waited < STATUS_MAX_WAIT + 20)
          /\ 5 * polled.n <= waited)
    /\ (pc \in {"loop", "create"} => created = JNull)
    /\ widx <= Len(plan) + 1

C20_Step ==
    /\ (lastReq'.ep = "create" =>
          pc = "create" /\ (pc' = "create" => hattempt' = hattempt + 1))
    /\ (lastReq'.ep = "status" =>
          /\ pc = "poll" /\ waited < STATUS_MAX_WAIT
          /\ (pc' = "poll" => waited' >= waited + 5))
    /\ (lastReq'.ep = "download" =>
          pc = "download" /\ (pc' = "download" => dattempt' = dattempt + 1))
    /\ (lastReq'.ep = "sink" =>
          pc = "upsert" /\ (pc' = "upsert" => chunk_i' > chunk_i))
    /\ (created' # created /\ created' # JNull =>
          pc = "create" /\ pc' # "create" /\ created = JNull)
    /\ (pc = "loop" /\ pc' = "create" => widx' = widx /\ attempt' = attempt)
    /\ (pc \in {"raised", "returned"} =>
          \/ widx' = widx + 1 /\ attempt' = 0
          \/ widx' = widx /\ attempt' = attempt + 1)
    /\ (pc \notin {"raised", "returned", "main"} =>
          widx' = widx /\ attempt' = attempt)

\* C20: every run ends: the process reaches its exit.  On the way a window
\* is attempted at most 3 times (the attempt number only grows while the
\* window stays, and the window only moves forward), every create request
\* but the last of an http_get call moves its attempt number, which is at
\* most 6, as every download request does for download_report; a status
\* request is issued only below the wait budget, to which every poll that
\* goes on adds at least 5 s; every chunk write moves upsert forward; and an
\* attempt gets a task at most once, from the create request that ends its
\* http_get call, so that a window has at most 3 tasks created in a run.
C20_RunTerminates ==
    /\ []C20_Inv
    /\ [][C20_Step]_vars
    /\ <>(pc = "exit")

\* a range of three windows came to its end, all windows gone through and
\* records stored
C20_Witness ==
    /\ pc = "exit" /\ exitCode = 0
    /\ Len(argv) = 3 /\ argv[1] = "range"
    /\ Len(plan) = 3 /\ widx = 4
    /\ netUsed /\ DOMAIN sink # {}

====
